---- MODULE Spec2Model ----
(***************************************************************************)
(* The persistence layer of the to-do application: the schema migrator     *)
(* (migrateDB, initializeDB, upgradeToVersion2), the data-access           *)
(* operations built on it, and the hosting component that runs the         *)
(* migration before any screen is mounted.                                 *)
(*                                                                         *)
(* Encoding of SQLite / JavaScript values:                                 *)
(*   NULL                 <<>>                                             *)
(*   a UUID string        <<"uuid", n>>   (randomUUID never repeats)       *)
(*   'default-list'       <<"default-list">>                               *)
(*   an ISO-8601 string   <<"iso", t>>    (t the instant, in clock ticks)  *)
(*   a TEXT value s       <<s>>  in the nullable column notes              *)
(*   a Date               <<"date", t>>                                    *)
(*   null, undefined      <<>>                                             *)
(*   INTEGER 0/1          0, 1                                             *)
(* A row of todos always carries the seven fields; a column the table does *)
(* not have (yet) reads as NULL, as it does after ALTER TABLE ADD COLUMN.  *)
(***************************************************************************)
EXTENDS Integers, Sequences, FiniteSets, TLC

VARIABLES
  db,               \* the store: user_version, schema and rows of both tables
  mpc,              \* position of the running migrateDB call (onInit)
  currentDbVersion, \* migrateDB's local variable
  seedIds,          \* initializeDB's todo1Id, todo2Id, todo3Id
  defaultListExists,\* upgradeToVersion2's count of 'default-list' rows
  nextUuid,         \* number of UUIDs crypto.randomUUID has handed out
  now,              \* the wall clock, in ticks
  calls,            \* the data-access calls of this launch, in issue order
  budget,           \* what is left to happen: launches, storage faults, calls
  ser,              \* history: the rows as the serial execution leaves them
  probe,            \* history: the last updateTodoStatus(true) / (false) pair
  hist              \* history of the current launch (not program state)

dalVars == <<now, calls, ser, probe>>

vars == <<db, mpc, currentDbVersion, seedIds, defaultListExists, nextUuid,
          now, calls, budget, ser, probe, hist>>

----------------------------------------------------------------------------
(* Bounds of the model *)

\* relaunches and storage faults of the migrator's specification
MaxRuns == 2

MaxFaults == 1

\* relaunches, storage faults and calls of the application's specification
MaxAppRuns == 1

MaxAppFaults == 1

MaxStartVersion == 3

MaxCalls == 2

MaxAppCalls == 1

\* calls the screens' forms issue in the forms' specification
MaxUiCalls == 2

\* lists created before getAllLists is called in the lists' specification
MaxLists == 3

\* tasks the user added to a version-1 store besides the seeded ones
MaxV1Extra == 2

\* gestures on the main screen in the screen's specification
MaxScreenCalls == 2

----------------------------------------------------------------------------
(* Values *)

NULL == <<>>

DEFAULT_LIST == <<"default-list">>

DEFAULT_LIST_NAME == "Todas as Tarefas"

Uuid(n) == <<"uuid", n>>

\* Date.prototype.toISOString and new Date(isoString), exact to the tick
toISOString(d) == <<"iso", d[2]>>

NewDate(iso) == <<"date", iso[2]>>

\* JavaScript truthiness of a value that is a string, a Date, null or undefined
Truthy(v) == v # <<>> /\ v # <<"">>

DATABASE_VERSION == 2

AddedColumns == <<"listId", "notes", "dueDate">>

BaseColumns == {"id", "text", "done", "createdAt"}

AllColumns == BaseColumns \cup {"listId", "notes", "dueDate"}

----------------------------------------------------------------------------
(* The store and its statements.  Each operator is one SQL statement: it   *)
(* maps a store to the store after the statement.  StmtFails tells whether *)
(* the statement raises an error on that store.                            *)

EmptyStore(v) ==
  [userVersion |-> v, todosCols |-> {}, todos |-> <<>>,
   hasLists |-> FALSE, lists |-> <<>>]

HasTodos(s) == s.todosCols # {}

\* CREATE TABLE IF NOT EXISTS todos (id, text, done, createdAt)
CreateTodosTable(s) ==
  IF HasTodos(s) THEN s ELSE [s EXCEPT !.todosCols = BaseColumns]

SeedText(k) ==
  CASE k = 1 -> "Sample Todo from DB"
    [] k = 2 -> "Sample Todo 2 from DB"
    [] OTHER -> "Sample Todo 3 from DB"

SeedDone(k) == IF k = 2 THEN 1 ELSE 0

\* '2023-01-0k T00:00:00Z': the k-th day, before every instant of the clock
SeedCreatedAt(k) == <<"iso", k - 4>>

\* INSERT INTO todos (id, text, done, createdAt) VALUES (...)
InsertSeedTodo(s, k, id) ==
  [s EXCEPT !.todos = Append(@,
     [id |-> id, text |-> SeedText(k), done |-> SeedDone(k),
      createdAt |-> SeedCreatedAt(k),
      listId |-> NULL, notes |-> NULL, dueDate |-> NULL])]

RecreateListsTable(s) == [s EXCEPT !.hasLists = TRUE, !.lists = <<>>]

\* CREATE TABLE IF NOT EXISTS todo_lists (id, name)
CreateListsTable(s) == [s EXCEPT !.hasLists = TRUE]

\* ALTER TABLE todos ADD COLUMN col TEXT
AddColumnFails(s, col) == ~HasTodos(s) \/ col \in s.todosCols

AddColumn(s, col) == [s EXCEPT !.todosCols = @ \cup {col}]

\* SELECT COUNT(*) as count FROM todo_lists WHERE id = 'default-list'
CountDefaultList(s) ==
  Cardinality({i \in 1..Len(s.lists) : s.lists[i].id = DEFAULT_LIST})

\* INSERT INTO todo_lists (id, name) VALUES ('default-list', 'Todas as Tarefas')
InsertDefaultListFails(s) ==
  ~s.hasLists \/ \E i \in 1..Len(s.lists) : s.lists[i].id = DEFAULT_LIST

InsertDefaultListSkipped(s) == s

InsertDefaultList(s) ==
  [s EXCEPT !.lists = Append(@, [id |-> DEFAULT_LIST, name |-> DEFAULT_LIST_NAME])]

\* UPDATE todos SET listId = 'default-list' WHERE listId IS NULL
BackfillFails(s) == "listId" \notin s.todosCols

BackfillNothing(s) == s

BackfillClearsDone(s) ==
  [s EXCEPT !.todos =
     [i \in 1..Len(@) |->
        IF @[i].listId = NULL THEN [@[i] EXCEPT !.listId = DEFAULT_LIST, !.done = 0]
        ELSE @[i]]]

BackfillListId(s) ==
  [s EXCEPT !.todos =
     [i \in 1..Len(@) |->
        IF @[i].listId = NULL THEN [@[i] EXCEPT !.listId = DEFAULT_LIST] ELSE @[i]]]

\* PRAGMA user_version = v
SetUserVersionLost(s, v) == s

SetUserVersionStale(s, v) == [s EXCEPT !.userVersion = v - 1]

SetUserVersion(s, v) == [s EXCEPT !.userVersion = v]

----------------------------------------------------------------------------
(* The data-access operations, statement by statement.  A statement maps a *)
(* store to [db |-> the store after it, result |-> what the call returns]. *)

Null == [kind |-> "null"]

Thrown == [kind |-> "error"]

Pending == [kind |-> "pending"]

RowResult(r) == [kind |-> "row", row |-> r]

RowsResult(rs) == [kind |-> "rows", rows |-> rs]

Outcome(s, r) == [db |-> s, result |-> r]

FullSchema(s) == AllColumns \subseteq s.todosCols

MatchingAny(todos, id) == 1..Len(todos)

\* WHERE id = ?
Matching(todos, id) == {i \in 1..Len(todos) : todos[i].id = id}

\* the mapping every operation applies to a returned row (e.g. lines 496-500)
ToTodoItem(row) ==
  [row EXCEPT !.createdAt = NewDate(@),
              !.dueDate = IF Truthy(@) THEN NewDate(@) ELSE NULL]

ToTodoItems(rows) == [i \in 1..Len(rows) |-> ToTodoItem(rows[i])]

SelectWhere(todos, Keep(_)) ==
  LET F[n \in 0..Len(todos)] ==
        IF n = 0 THEN <<>>
        ELSE IF Keep(todos[n]) THEN Append(F[n - 1], todos[n]) ELSE F[n - 1]
  IN  F[Len(todos)]

\* getAllTodos: SELECT * FROM todos
getAllTodos(s) ==
  IF ~HasTodos(s) THEN Outcome(s, Thrown)
  ELSE Outcome(s, RowsResult(ToTodoItems(s.todos)))

\* getTodosByList: if (listId) SELECT ... WHERE listId = ? else SELECT *
getTodosByList(s, listId) ==
  IF Truthy(listId)
    THEN IF "listId" \notin s.todosCols THEN Outcome(s, Thrown)
         ELSE LET Keep(r) == r.listId = listId
              IN  Outcome(s, RowsResult(ToTodoItems(SelectWhere(s.todos, Keep))))
    ELSE getAllTodos(s)

\* the names of the model in ascending order of SQLite's BINARY collation
NameOrder == <<"", "Apple", "Todas as Tarefas", "Work", "Z", "apple">>

NameRank(name) == CHOOSE i \in 1..Len(NameOrder) : NameOrder[i] = name

OrderByRowid(lists) == lists

\* ORDER BY name
OrderByName(lists) ==
  LET Insert(sq, x) ==
        LET pos == Cardinality({i \in 1..Len(sq) :
                                  NameRank(sq[i].name) <= NameRank(x.name)})
        IN  SubSeq(sq, 1, pos) \o <<x>> \o SubSeq(sq, pos + 1, Len(sq))
      F[n \in 0..Len(lists)] ==
        IF n = 0 THEN <<>> ELSE Insert(F[n - 1], lists[n])
  IN  F[Len(lists)]

\* getAllLists: SELECT * FROM todo_lists ORDER BY name
getAllLists(s) ==
  IF ~s.hasLists THEN Outcome(s, Thrown)
  ELSE Outcome(s, RowsResult(OrderByName(s.lists)))

\* createList: INSERT INTO todo_lists (id, name) VALUES (?, ?) RETURNING id, name
createList(s, id, name) ==
  IF ~s.hasLists THEN Outcome(s, Thrown)
  ELSE LET row == [id |-> id, name |-> name]
       IN  Outcome([s EXCEPT !.lists = Append(@, row)], RowResult(row))

NewTodoRowDefaultList(id, text, createdAt, listId, notes, dueDate) ==
  [id |-> id, text |-> text, done |-> 0, createdAt |-> createdAt,
   listId |-> DEFAULT_LIST,
   notes |-> IF Truthy(notes) THEN notes ELSE NULL,
   dueDate |-> IF Truthy(dueDate) THEN toISOString(dueDate) ELSE NULL]

\* createTodo's bound parameters (lines 543-551): notes || null, and
\* dueDate ? dueDate.toISOString() : null
NewTodoRow(id, text, createdAt, listId, notes, dueDate) ==
  [id |-> id, text |-> text, done |-> 0, createdAt |-> createdAt,
   listId |-> listId,
   notes |-> IF Truthy(notes) THEN notes ELSE NULL,
   dueDate |-> IF Truthy(dueDate) THEN toISOString(dueDate) ELSE NULL]

createTodoReplace(s, row) ==
  IF ~FullSchema(s) THEN Outcome(s, Thrown)
  ELSE Outcome([s EXCEPT !.todos = [@ EXCEPT ![Len(@)] = row]],
               RowResult(ToTodoItem(row)))

\* createTodo: INSERT INTO todos (...) VALUES (?, ?, 0, ?, ?, ?, ?) RETURNING ...
createTodo(s, row) ==
  IF ~FullSchema(s) THEN Outcome(s, Thrown)
  ELSE Outcome([s EXCEPT !.todos = Append(@, row)], RowResult(ToTodoItem(row)))

DoneToIntStuck(done) == 1

\* done ? 1 : 0
DoneToInt(done) == IF done THEN 1 ELSE 0

\* updateTodoStatus: UPDATE todos SET done = ? WHERE id = ? RETURNING ...
updateTodoStatus(s, id, done) ==
  IF ~FullSchema(s) THEN Outcome(s, Thrown)
  ELSE LET hit == Matching(s.todos, id)
           new == [i \in 1..Len(s.todos) |->
                     IF i \in hit THEN [s.todos[i] EXCEPT !.done = DoneToInt(done)]
                     ELSE s.todos[i]]
       IN  IF hit = {} THEN Outcome(s, Null)
           ELSE Outcome([s EXCEPT !.todos = new],
                        RowResult(ToTodoItem(new[CHOOSE i \in hit : TRUE])))

\* updateTodo, line 585: SELECT * FROM todos WHERE id = ?
SelectTodo(s, id) ==
  IF ~HasTodos(s) THEN Thrown
  ELSE LET hit == Matching(s.todos, id)
       IN  IF hit = {} THEN Null ELSE RowResult(s.todos[CHOOSE i \in hit : TRUE])

\* updates.f is neither undefined nor null (f one of notes, dueDate, listId)
Has(updates, f) == f \in DOMAIN updates /\ updates[f] # NULL

MergeUpdatesTextRequired(todo, updates) ==
  [todo EXCEPT
     !.text = IF "text" \in DOMAIN updates THEN updates.text ELSE "",
     !.notes = LET n == IF Has(updates, "notes") THEN updates.notes ELSE @
               IN  IF Truthy(n) THEN n ELSE NULL,
     !.dueDate = IF "dueDate" \in DOMAIN updates /\ Truthy(updates.dueDate)
                   THEN toISOString(updates.dueDate)
                   ELSE IF Truthy(@) THEN @ ELSE NULL,
     !.listId = IF Has(updates, "listId") THEN updates.listId ELSE @]

MergeUpdatesDueDateCleared(todo, updates) ==
  [todo EXCEPT
     !.text = IF "text" \in DOMAIN updates THEN updates.text ELSE @,
     !.notes = LET n == IF Has(updates, "notes") THEN updates.notes ELSE @
               IN  IF Truthy(n) THEN n ELSE NULL,
     !.dueDate = IF "dueDate" \in DOMAIN updates
                   THEN IF Truthy(updates.dueDate) THEN toISOString(updates.dueDate)
                        ELSE NULL
                   ELSE IF Truthy(@) THEN @ ELSE NULL,
     !.listId = IF Has(updates, "listId") THEN updates.listId ELSE @]

MergeUpdatesListIdRequired(todo, updates) ==
  [todo EXCEPT
     !.text = IF "text" \in DOMAIN updates THEN updates.text ELSE @,
     !.notes = LET n == IF Has(updates, "notes") THEN updates.notes ELSE @
               IN  IF Truthy(n) THEN n ELSE NULL,
     !.dueDate = IF "dueDate" \in DOMAIN updates /\ Truthy(updates.dueDate)
                   THEN toISOString(updates.dueDate)
                   ELSE IF Truthy(@) THEN @ ELSE NULL,
     !.listId = IF Has(updates, "listId") THEN updates.listId ELSE NULL]

\* updateTodo, lines 588-592: the four values bound to the UPDATE, merged
\* over the row read at line 585
MergeUpdates(todo, updates) ==
  [todo EXCEPT
     !.text = IF "text" \in DOMAIN updates THEN updates.text ELSE @,
     !.notes = LET n == IF Has(updates, "notes") THEN updates.notes ELSE @
               IN  IF Truthy(n) THEN n ELSE NULL,
     !.dueDate = IF "dueDate" \in DOMAIN updates /\ Truthy(updates.dueDate)
                   THEN toISOString(updates.dueDate)
                   ELSE IF Truthy(@) THEN @ ELSE NULL,
     !.listId = IF Has(updates, "listId") THEN updates.listId ELSE @]

SetWholeRow(row, m) == m

SetClauseWithDone(row, m) ==
  [row EXCEPT !.text = m.text, !.notes = m.notes,
              !.dueDate = m.dueDate, !.listId = m.listId, !.done = m.done]

SetClauseStamped(row, m) ==
  [row EXCEPT !.text = m.text, !.notes = m.notes,
              !.dueDate = m.dueDate, !.listId = m.listId,
              !.createdAt = toISOString(<<"date", 0>>)]

\* SET text = ?, notes = ?, dueDate = ?, listId = ?
SetClause(row, m) ==
  [row EXCEPT !.text = m.text, !.notes = m.notes,
              !.dueDate = m.dueDate, !.listId = m.listId]

\* updateTodo, lines 594-600: UPDATE todos SET ... WHERE id = ? RETURNING ...
updateTodoWrite(s, id, m) ==
  IF ~FullSchema(s) THEN Outcome(s, Thrown)
  ELSE LET hit == Matching(s.todos, id)
           new == [i \in 1..Len(s.todos) |->
                     IF i \in hit THEN SetClause(s.todos[i], m) ELSE s.todos[i]]
       IN  IF hit = {} THEN Outcome(s, Null)
           ELSE Outcome([s EXCEPT !.todos = new],
                        RowResult(ToTodoItem(new[CHOOSE i \in hit : TRUE])))

\* updateTodo run with nothing in between its two statements
updateTodoAtomic(s, id, updates) ==
  LET todo == SelectTodo(s, id)
  IN  IF todo.kind # "row" THEN Outcome(s, todo)
      ELSE updateTodoWrite(s, id, MergeUpdates(todo.row, updates))

\* getDBVersion: PRAGMA user_version
getDBVersion(s) == Outcome(s, RowResult([user_version |-> s.userVersion]))

\* getSQLiteVersion: SELECT sqlite_version()
getSQLiteVersion(s) == Outcome(s, RowResult([sqlite_version |-> "3"]))

\* what the serial execution compares: the rows of both tables
Content(s) == [todos |-> s.todos, lists |-> s.lists]

NoProbe == [phase |-> 0]

----------------------------------------------------------------------------
(* migrateDB, one action per awaited storage statement.  execAsync runs    *)
(* the statements of its script one after the other in autocommit mode, so *)
(* every statement of initializeDB's script is a step of its own.          *)

InsertPc == <<"init_insert1", "init_insert2", "init_insert3">>

ColumnPc == <<"upg_listId", "upg_notes", "upg_dueDate">>

StatementPcs ==
  {"start", "init_journal", "init_create", "upg_create", "upg_count",
   "upg_insert", "upg_backfill", "set_version"}
    \cup {InsertPc[k] : k \in 1..3} \cup {ColumnPc[k] : k \in 1..3}

Log(entry) == [hist EXCEPT !.steps = Append(@, entry)]

\* migrateDB, lines 395-411: read the marker and branch on it
MigBranchReseed(v) ==
  CASE v = DATABASE_VERSION -> "done"
    [] v <= 1 -> "init_journal"
    [] OTHER -> "set_version"

MigBranchReinit(v) ==
  CASE v = 1 -> "upg_create"
    [] v > DATABASE_VERSION -> "set_version"
    [] OTHER -> "init_journal"

MigBranch(v) ==
  CASE v = DATABASE_VERSION -> "done"
    [] v = 0 -> "init_journal"
    [] v = 1 -> "upg_create"
    [] OTHER -> "set_version"

MigReadVersion ==
  /\ mpc = "start"
  /\ currentDbVersion' = db.userVersion
  /\ mpc' = MigBranch(db.userVersion)
  /\ IF mpc' = "init_journal"
       THEN /\ seedIds' = <<Uuid(nextUuid + 1), Uuid(nextUuid + 2), Uuid(nextUuid + 3)>>
            /\ nextUuid' = nextUuid + 3
       ELSE UNCHANGED <<seedIds, nextUuid>>
  /\ hist' = [hist EXCEPT !.readVersion = db.userVersion,
                          !.steps = IF mpc' = "init_journal" THEN Append(@, "init:begin")
                                    ELSE IF mpc' = "upg_create" THEN Append(@, "upgrade:begin")
                                    ELSE @]
  /\ UNCHANGED <<db, defaultListExists>>
  /\ UNCHANGED <<dalVars, budget>>

\* initializeDB: PRAGMA journal_mode = WAL
InitJournal ==
  /\ mpc = "init_journal"
  /\ mpc' = "init_create"
  /\ UNCHANGED <<db, currentDbVersion, seedIds, defaultListExists, nextUuid,
                 hist>>
  /\ UNCHANGED <<dalVars, budget>>

\* initializeDB: CREATE TABLE IF NOT EXISTS todos
InitCreate ==
  /\ mpc = "init_create"
  /\ db' = CreateTodosTable(db)
  /\ mpc' = InsertPc[1]
  /\ UNCHANGED <<currentDbVersion, seedIds, defaultListExists, nextUuid,
                 hist>>
  /\ UNCHANGED <<dalVars, budget>>

\* initializeDB: the k-th INSERT; after the third, migrateDB sets
\* currentDbVersion = 1 and enters upgradeToVersion2
InitInsert(k) ==
  /\ mpc = InsertPc[k]
  /\ db' = InsertSeedTodo(db, k, seedIds[k])
  /\ IF k < 3
       THEN /\ mpc' = InsertPc[k + 1]
            /\ UNCHANGED <<currentDbVersion, hist>>
       ELSE /\ mpc' = "upg_create"
            /\ currentDbVersion' = 1
            /\ hist' = [hist EXCEPT !.steps = @ \o <<"init:end", "upgrade:begin">>]
  /\ UNCHANGED <<seedIds, defaultListExists, nextUuid>>
  /\ UNCHANGED <<dalVars, budget>>

\* upgradeToVersion2: CREATE TABLE IF NOT EXISTS todo_lists
UpgCreateLists ==
  /\ mpc = "upg_create"
  /\ db' = CreateListsTable(db)
  /\ mpc' = ColumnPc[1]
  /\ UNCHANGED <<currentDbVersion, seedIds, defaultListExists, nextUuid,
                 hist>>
  /\ UNCHANGED <<dalVars, budget>>

AfterColumn(k) == IF k < 3 THEN ColumnPc[k + 1] ELSE "upg_count"

\* upgradeToVersion2: try { ALTER TABLE todos ADD COLUMN ... } catch (e) { log }
UpgAddColumn(k) ==
  /\ mpc = ColumnPc[k]
  /\ IF AddColumnFails(db, AddedColumns[k])
       THEN /\ UNCHANGED db
            /\ hist' = [hist EXCEPT !.swallowed = @ + 1]
       ELSE /\ db' = AddColumn(db, AddedColumns[k])
            /\ UNCHANGED hist
  /\ mpc' = AfterColumn(k)
  /\ UNCHANGED <<currentDbVersion, seedIds, defaultListExists, nextUuid>>
  /\ UNCHANGED <<dalVars, budget>>

\* upgradeToVersion2: SELECT COUNT(*) ... WHERE id = 'default-list'
UpgCountDefault ==
  /\ mpc = "upg_count"
  /\ defaultListExists' = CountDefaultList(db)
  /\ mpc' = IF defaultListExists' = 0 THEN "upg_insert" ELSE "upg_backfill"
  /\ UNCHANGED <<db, currentDbVersion, seedIds, nextUuid, hist>>
  /\ UNCHANGED <<dalVars, budget>>

\* upgradeToVersion2: INSERT INTO todo_lists ... 'default-list'
UpgInsertDefault ==
  /\ mpc = "upg_insert"
  /\ IF InsertDefaultListFails(db)
       THEN /\ mpc' = "failed"
            /\ UNCHANGED db
       ELSE /\ mpc' = "upg_backfill"
            /\ db' = InsertDefaultList(db)
  /\ UNCHANGED <<currentDbVersion, seedIds, defaultListExists, nextUuid,
                 hist>>
  /\ UNCHANGED <<dalVars, budget>>

\* upgradeToVersion2: UPDATE todos SET listId = 'default-list' WHERE listId IS NULL;
\* back in migrateDB, currentDbVersion = 2
UpgBackfill ==
  /\ mpc = "upg_backfill"
  /\ IF BackfillFails(db)
       THEN /\ mpc' = "failed"
            /\ UNCHANGED <<db, currentDbVersion, hist>>
       ELSE /\ mpc' = "set_version"
            /\ db' = BackfillListId(db)
            /\ currentDbVersion' = 2
            /\ hist' = Log("upgrade:end")
  /\ UNCHANGED <<seedIds, defaultListExists, nextUuid>>
  /\ UNCHANGED <<dalVars, budget>>

\* migrateDB, line 417: PRAGMA user_version = 2
MigSetVersion ==
  /\ mpc = "set_version"
  /\ db' = SetUserVersion(db, DATABASE_VERSION)
  /\ mpc' = "done"
  /\ UNCHANGED <<currentDbVersion, seedIds, defaultListExists, nextUuid,
                 hist>>
  /\ UNCHANGED <<dalVars, budget>>

\* Which errors the code catches: upgradeToVersion2 wraps each ALTER TABLE in
\* try/catch with an unconditional handler; nothing else is caught.
Caught(pc) == pc \in {ColumnPc[k] : k \in 1..3}

PcAfterCaught(pc) ==
  CASE pc = ColumnPc[1] -> ColumnPc[2]
    [] pc = ColumnPc[2] -> ColumnPc[3]
    [] OTHER -> "upg_count"

\* The storage engine raises a fault (disk full, I/O error, ...) on the
\* statement the migration is about to run; the statement has no effect.
StorageFault ==
  /\ mpc \in StatementPcs
  /\ budget.faults > 0
  /\ budget' = [budget EXCEPT !.faults = @ - 1]
  /\ IF Caught(mpc)
       THEN /\ mpc' = PcAfterCaught(mpc)
            /\ hist' = [hist EXCEPT !.otherFault = TRUE, !.faulted = TRUE,
                                    !.swallowed = @ + 1]
       ELSE /\ mpc' = "failed"
            /\ hist' = [hist EXCEPT !.otherFault = TRUE, !.faulted = TRUE]
  /\ UNCHANGED <<db, currentDbVersion, seedIds, defaultListExists, nextUuid>>
  /\ UNCHANGED dalVars

\* dbAtLaunch: the store this launch found; store0: the store the first launch
\* found; prevDone: the previous launch's migrateDB call had returned;
\* interrupted: some earlier launch was killed inside migrateDB; faulted: a
\* storage fault was raised in some launch; readVersion, steps: the marker
\* this run read and the version steps it began and ended; otherFault: a
\* storage fault was raised in this run; swallowed: errors this run caught
NewHist(s, store0, prevDone, interrupted, faulted) ==
  [dbAtLaunch |-> s, store0 |-> store0, prevDone |-> prevDone,
   interrupted |-> interrupted, faulted |-> faulted, readVersion |-> -1,
   steps |-> <<>>, otherFault |-> FALSE, swallowed |-> 0]

\* The process is killed (at any point) and the application is launched
\* again on the same store file: SQLiteProvider calls onInit = migrateDB.
Relaunch ==
  /\ budget.runs > 0
  /\ budget' = [budget EXCEPT !.runs = @ - 1]
  /\ mpc' = "start"
  /\ currentDbVersion' = 0
  /\ seedIds' = <<>>
  /\ defaultListExists' = 0
  /\ hist' = NewHist(db, hist.store0, mpc = "done",
                     hist.interrupted \/ mpc \notin {"done", "failed"},
                     hist.faulted)
  /\ calls' = <<>>
  /\ probe' = NoProbe
  /\ UNCHANGED <<db, nextUuid, now, ser>>

----------------------------------------------------------------------------
(* The hosting component and the calls of the screens.  Index renders its  *)
(* screens as children of <SQLiteProvider onInit={migrateDB}>: they mount, *)
(* and can call the data layer, once onInit has resolved.  A call runs its *)
(* synchronous prefix when it is issued; each awaited statement is a step  *)
(* of its own, and the statements of different calls interleave freely.    *)

MountedEarly == mpc # "failed"

Mounted == mpc = "done"

CanIssue == Mounted /\ budget.calls > 0

\* todo: the row updateTodo read; result: what the call returned; history:
\* serResult, what it returns in the serial execution; stale, the updateTodo
\* calls that wrote the row between this call's read and its write; at, the
\* position of its return among the returns
NewCall(op, id, args, pc) ==
  [op |-> op, id |-> id, args |-> args, pc |-> pc, todo |-> Pending,
   result |-> Pending, serResult |-> Pending, stale |-> {}, at |-> 0]

Returned == Cardinality({j \in 1..Len(calls) : calls[j].pc = "done"})

\* A call is issued.  The history of the migration run ends here: what it
\* recorded was about the run up to the mounting of the screens.
Issue(call) ==
  /\ CanIssue
  /\ calls' = Append(calls, call)
  /\ budget' = [budget EXCEPT !.calls = @ - 1]
  /\ ser' = IF calls = <<>> THEN db ELSE ser
  /\ hist' = NewHist(db, db, FALSE, FALSE, FALSE)
  /\ UNCHANGED <<db, mpc, currentDbVersion, seedIds, defaultListExists, probe>>

\* the statement of call i has run: the call returns
Return(i, out, serOut) ==
  /\ db' = out.db
  /\ ser' = serOut.db
  /\ calls' = [calls EXCEPT ![i].pc = "done", ![i].result = out.result,
                            ![i].serResult = serOut.result,
                            ![i].at = Returned + 1]
  /\ UNCHANGED <<mpc, currentDbVersion, seedIds, defaultListExists, nextUuid,
                 now, budget, hist>>

At(i, op, pc) == calls[i].op = op /\ calls[i].pc = pc

\* ids and values the screens pass
NoSuchId == Uuid(0)

\* the ids the screens act on: those of the first two rows (the seeded rows
\* with done = 0 and done = 1), and one of no row
Targets ==
  {db.todos[i].id : i \in {j \in {1, 2} : j <= Len(db.todos)}} \cup {NoSuchId}

SomeDate == <<"date", 9>>

ListIdArgs == {NULL, <<"">>, DEFAULT_LIST, NoSuchId}

ListNames == {"Work", "Apple"}

CreateArgs ==
  {[text |-> "a", listId |-> NULL, notes |-> NULL, dueDate |-> NULL],
   [text |-> "b", listId |-> NoSuchId, notes |-> <<"n">>, dueDate |-> SomeDate],
   [text |-> "", listId |-> DEFAULT_LIST, notes |-> <<"">>, dueDate |-> NULL]}

UpdateArgs ==
  {[text |-> "x"],
   [notes |-> <<"n">>],
   [notes |-> <<"">>, dueDate |-> SomeDate],
   [text |-> "y", notes |-> NULL, dueDate |-> NULL, listId |-> NoSuchId]}

Call_getAllTodos ==
  /\ Issue(NewCall("getAllTodos", NULL, <<>>, "stmt"))
  /\ UNCHANGED <<nextUuid, now>>

Stmt_getAllTodos(i) ==
  /\ At(i, "getAllTodos", "stmt")
  /\ Return(i, getAllTodos(db), getAllTodos(ser))
  /\ UNCHANGED probe

Call_getTodosByList(listId) ==
  /\ Issue(NewCall("getTodosByList", NULL, [listId |-> listId], "stmt"))
  /\ UNCHANGED <<nextUuid, now>>

Stmt_getTodosByList(i) ==
  /\ At(i, "getTodosByList", "stmt")
  /\ Return(i, getTodosByList(db, calls[i].args.listId),
               getTodosByList(ser, calls[i].args.listId))
  /\ UNCHANGED probe

Call_getAllLists ==
  /\ Issue(NewCall("getAllLists", NULL, <<>>, "stmt"))
  /\ UNCHANGED <<nextUuid, now>>

Stmt_getAllLists(i) ==
  /\ At(i, "getAllLists", "stmt")
  /\ Return(i, getAllLists(db), getAllLists(ser))
  /\ UNCHANGED probe

\* createList, line 528: const id = crypto.randomUUID()
Call_createList(name) ==
  /\ Issue(NewCall("createList", Uuid(nextUuid + 1), [name |-> name], "stmt"))
  /\ nextUuid' = nextUuid + 1
  /\ UNCHANGED now

Stmt_createList(i) ==
  /\ At(i, "createList", "stmt")
  /\ Return(i, createList(db, calls[i].id, calls[i].args.name),
               createList(ser, calls[i].id, calls[i].args.name))
  /\ UNCHANGED probe

\* createTodo, lines 539-545: the default of listId, the new id, the instant
Call_createTodo(a) ==
  /\ Issue(NewCall("createTodo", Uuid(nextUuid + 1),
       [row |-> NewTodoRow(Uuid(nextUuid + 1), a.text, toISOString(<<"date", now>>),
                           IF a.listId = NULL THEN DEFAULT_LIST ELSE a.listId,
                           a.notes, a.dueDate),
        given |-> a, at |-> now],
       "stmt"))
  /\ nextUuid' = nextUuid + 1
  /\ now' = now + 1

Stmt_createTodo(i) ==
  /\ At(i, "createTodo", "stmt")
  /\ Return(i, createTodo(db, calls[i].args.row), createTodo(ser, calls[i].args.row))
  /\ UNCHANGED probe

Call_updateTodoStatus(id, done) ==
  /\ Issue(NewCall("updateTodoStatus", id, [done |-> done], "stmt"))
  /\ UNCHANGED <<nextUuid, now>>

\* the pair updateTodoStatus(id, true), updateTodoStatus(id, false) with no
\* write to that row in between
ProbeAfterStatus(id, done, before) ==
  IF before.kind # "row" THEN probe
  ELSE IF done THEN [phase |-> 1, id |-> id, orig |-> before.row]
  ELSE IF probe.phase = 1 /\ probe.id = id
         THEN [phase |-> 2, id |-> id, orig |-> probe.orig]
  ELSE IF probe.phase > 0 /\ probe.id = id THEN NoProbe
  ELSE probe

Stmt_updateTodoStatus(i) ==
  /\ At(i, "updateTodoStatus", "stmt")
  /\ Return(i, updateTodoStatus(db, calls[i].id, calls[i].args.done),
               updateTodoStatus(ser, calls[i].id, calls[i].args.done))
  /\ probe' = ProbeAfterStatus(calls[i].id, calls[i].args.done,
                               SelectTodo(db, calls[i].id))

Call_updateTodo(id, updates) ==
  /\ Issue(NewCall("updateTodo", id, updates, "read"))
  /\ UNCHANGED <<nextUuid, now>>

\* updateTodo, lines 585-586: the SELECT; if (!todo) return null
Read_updateTodo(i) ==
  /\ At(i, "updateTodo", "read")
  /\ LET todo == SelectTodo(db, calls[i].id)
     IN  IF todo.kind = "row"
           THEN /\ calls' = [calls EXCEPT ![i].pc = "write", ![i].todo = todo]
                /\ UNCHANGED <<db, ser>>
           ELSE /\ calls' = [calls EXCEPT ![i].pc = "done", ![i].todo = todo,
                               ![i].result = todo, ![i].at = Returned + 1,
                               ![i].serResult =
                                  updateTodoAtomic(ser, calls[i].id, calls[i].args).result]
                /\ UNCHANGED <<db, ser>>
  /\ UNCHANGED <<mpc, currentDbVersion, seedIds, defaultListExists, nextUuid,
                 now, budget, probe, hist>>

MergeBaseFresh(i) == SelectTodo(db, calls[i].id).row

\* the row updateTodo merges the updates over: the one it read
MergeBase(i) == calls[i].todo.row

\* updateTodo, lines 588-608: merge and UPDATE
Write_updateTodo(i) ==
  /\ At(i, "updateTodo", "write")
  /\ LET out == updateTodoWrite(db, calls[i].id, MergeUpdates(MergeBase(i), calls[i].args))
         serOut == updateTodoAtomic(ser, calls[i].id, calls[i].args)
         wrote == out.result.kind = "row"
     IN  /\ db' = out.db
         /\ ser' = serOut.db
         /\ calls' = [j \in 1..Len(calls) |->
              IF j = i
                THEN [calls[j] EXCEPT !.pc = "done", !.result = out.result,
                                      !.serResult = serOut.result,
                                      !.at = Returned + 1]
              ELSE IF wrote /\ calls[j].op = "updateTodo" /\ calls[j].pc = "write"
                            /\ calls[j].id = calls[i].id
                THEN [calls[j] EXCEPT !.stale = @ \cup {i}]
              ELSE calls[j]]
         /\ probe' = IF wrote /\ probe.phase > 0 /\ probe.id = calls[i].id
                       THEN NoProbe ELSE probe
  /\ UNCHANGED <<mpc, currentDbVersion, seedIds, defaultListExists, nextUuid,
                 now, budget, hist>>

Call_getDBVersion ==
  /\ Issue(NewCall("getDBVersion", NULL, <<>>, "stmt"))
  /\ UNCHANGED <<nextUuid, now>>

Stmt_getDBVersion(i) ==
  /\ At(i, "getDBVersion", "stmt")
  /\ Return(i, getDBVersion(db), getDBVersion(ser))
  /\ UNCHANGED probe

Call_getSQLiteVersion ==
  /\ Issue(NewCall("getSQLiteVersion", NULL, <<>>, "stmt"))
  /\ UNCHANGED <<nextUuid, now>>

Stmt_getSQLiteVersion(i) ==
  /\ At(i, "getSQLiteVersion", "stmt")
  /\ Return(i, getSQLiteVersion(db), getSQLiteVersion(ser))
  /\ UNCHANGED probe

NextDal ==
  \/ Call_getAllTodos
  \/ \E listId \in ListIdArgs : Call_getTodosByList(listId)
  \/ Call_getAllLists
  \/ \E name \in ListNames : Call_createList(name)
  \/ \E a \in CreateArgs : Call_createTodo(a)
  \/ \E id \in Targets, done \in BOOLEAN : Call_updateTodoStatus(id, done)
  \/ \E id \in Targets, u \in UpdateArgs : Call_updateTodo(id, u)
  \/ Call_getDBVersion
  \/ Call_getSQLiteVersion
  \/ \E i \in 1..Len(calls) :
       \/ Stmt_getAllTodos(i)
       \/ Stmt_getTodosByList(i)
       \/ Stmt_getAllLists(i)
       \/ Stmt_createList(i)
       \/ Stmt_createTodo(i)
       \/ Stmt_updateTodoStatus(i)
       \/ Read_updateTodo(i)
       \/ Write_updateTodo(i)
       \/ Stmt_getDBVersion(i)
       \/ Stmt_getSQLiteVersion(i)

----------------------------------------------------------------------------
(* The forms of the screens: what the user typed goes through the form's   *)
(* handler, which validates it (or not) and calls the data layer.          *)

\* what the user can leave in a text field
TypedTexts == {"", " ", "a"}

TypedNames == {"", " ", " Work ", "Apple"}

TypedNotes == {"", "n"}

\* String.prototype.trim on the strings above
Trim(str) ==
  CASE str = " " -> ""
    [] str = " Work " -> "Work"
    [] OTHER -> str

\* the lists the add-task form offers: selectedListId || 'default-list', or
\* one picked among the lists loaded
OfferedLists == {DEFAULT_LIST} \cup {db.lists[l].id : l \in 1..Len(db.lists)}

\* AddTodoForm.handlePress and TodoList.addTodo: blank text is refused with an
\* alert; otherwise createTodo(db, text, selectedList, notes.trim() || undefined,
\* dueDate)
AddTodoForm_handlePress(text, selectedList, notes, dueDate) ==
  /\ Trim(text) # ""
  /\ Call_createTodo([text |-> text, listId |-> selectedList,
                      notes |-> IF Trim(notes) = "" THEN NULL ELSE <<Trim(notes)>>,
                      dueDate |-> dueDate])

\* ListsScreen.handleCreateList: a blank name is refused with an alert;
\* otherwise createList(db, newListName.trim())
handleCreateList(newListName) ==
  /\ Trim(newListName) # ""
  /\ Call_createList(Trim(newListName))

\* the task the details screen loaded (loadTask), as a TodoItem
LoadedTask(id) == SelectTodo(db, id).row

\* TaskDetails.handleUpdate: the loaded task, with the text the user left in
\* the field, goes to updateTodo as it is
handleUpdate(id, text) ==
  LET task == [ToTodoItem(LoadedTask(id)) EXCEPT !.text = text]
  IN  Call_updateTodo(task.id, [text |-> task.text, notes |-> task.notes,
                                dueDate |-> task.dueDate, listId |-> task.listId])

NextUi ==
  \/ \E text \in TypedTexts, l \in OfferedLists, n \in TypedNotes,
        d \in {NULL, SomeDate} : AddTodoForm_handlePress(text, l, n, d)
  \/ \E name \in TypedNames : handleCreateList(name)
  \/ \E id \in Targets \ {NoSuchId}, text \in TypedTexts : handleUpdate(id, text)
  \/ \E i \in 1..Len(calls) :
       \/ Stmt_createTodo(i)
       \/ Stmt_createList(i)
       \/ Read_updateTodo(i)
       \/ Write_updateTodo(i)

\* TodoList's state todos after loadData: the rows of a fresh install
LoadedTodos ==
  [k \in 1..3 |->
     ToTodoItem([id |-> Uuid(k), text |-> SeedText(k), done |-> SeedDone(k),
                 createdAt |-> SeedCreatedAt(k), listId |-> DEFAULT_LIST,
                 notes |-> NULL, dueDate |-> NULL])]

\* how many calls had returned when the gesture of this call was made
SeenBy(call) ==
  IF call.op = "createTodo" THEN call.args.given.seen ELSE call.args.seen

\* TodoList's state todos after n calls returned.  A handler closes over the
\* todos of the render in which its gesture was made, and after its await
\* sets the state from that value: setTodos([...todos, newTodo]) in addTodo,
\* setTodos(todos.map(...)) in toggleTodo, and nothing when the call threw or
\* returned null.
RECURSIVE TodosAfter(_)
TodosAfter(n) ==
  IF n = 0 THEN LoadedTodos
  ELSE LET call == calls[CHOOSE i \in 1..Len(calls) : calls[i].at = n]
           closed == TodosAfter(SeenBy(call))
       IN  IF call.result.kind # "row" THEN TodosAfter(n - 1)
           ELSE IF call.op = "createTodo" THEN Append(closed, call.result.row)
           ELSE [k \in 1..Len(closed) |->
                   IF closed[k].id = call.result.row.id THEN call.result.row
                   ELSE closed[k]]

\* the list the screen shows now
TodoList_todos == TodosAfter(Returned)

\* TodoList.addTodo, reached from the add-task form with a text that is not
\* blank and the default list selected
addTodo(text) ==
  Call_createTodo([text |-> text, listId |-> DEFAULT_LIST, notes |-> NULL,
                   dueDate |-> NULL, seen |-> Returned])

\* TodoList.toggleTodo: the item is looked up in todos and its done negated
toggleTodo(k) ==
  /\ k \in 1..Len(TodoList_todos)
  /\ Issue(NewCall("updateTodoStatus", TodoList_todos[k].id,
                   [done |-> TodoList_todos[k].done = 0, seen |-> Returned], "stmt"))
  /\ UNCHANGED <<nextUuid, now>>

NextScreen ==
  \/ \E text \in {"a", "b"} : addTodo(text)
  \/ \E k \in 1..(3 + MaxScreenCalls) : toggleTodo(k)
  \/ \E i \in 1..Len(calls) :
       \/ Stmt_createTodo(i)
       \/ Stmt_updateTodoStatus(i)

\* the names lists are created with in the lists' specification
ListNameInputs == {"Work", "Apple", "Z", "apple"}

\* getAllLists called once
NextLists ==
  \/ Call_getAllLists
  \/ \E i \in 1..Len(calls) : Stmt_getAllLists(i)

----------------------------------------------------------------------------
(* One uninterrupted, fault-free migrateDB call as a function of the store *)
(* it starts on: the statements above in the order the code issues them.   *)

\* the store's rows carry the first Len(todos) UUIDs
StartUuids(s) == Len(s.todos)

TryAddColumn(s, col) == IF AddColumnFails(s, col) THEN s ELSE AddColumn(s, col)

initializeDBRun(s, n) ==
  InsertSeedTodo(InsertSeedTodo(InsertSeedTodo(CreateTodosTable(s),
    1, Uuid(n + 1)), 2, Uuid(n + 2)), 3, Uuid(n + 3))

upgradeToVersion2Run(s) ==
  LET a == TryAddColumn(TryAddColumn(TryAddColumn(CreateListsTable(s),
             AddedColumns[1]), AddedColumns[2]), AddedColumns[3])
      b == IF CountDefaultList(a) = 0 THEN InsertDefaultList(a) ELSE a
  IN  BackfillListId(b)

migrateDBRun(s) ==
  LET v0 == s.userVersion
      s1 == IF v0 = 0 THEN initializeDBRun(s, StartUuids(s)) ELSE s
      v1 == IF v0 = 0 THEN 1 ELSE v0
      s2 == IF v1 = 1 THEN upgradeToVersion2Run(s1) ELSE s1
  IN  IF v0 = DATABASE_VERSION THEN s ELSE SetUserVersion(s2, DATABASE_VERSION)

\* the task rows without their (random) ids
EraseIds(todos) == [i \in 1..Len(todos) |-> [todos[i] EXCEPT !.id = NULL]]

IsPrefix(p, q) == Len(p) <= Len(q) /\ \A i \in 1..Len(p) : p[i] = q[i]

----------------------------------------------------------------------------
(* Stores the first launch can find *)

\* the three rows initializeDB seeds, as a version-1 application left them
V1Todos ==
  [k \in 1..3 |->
     [id |-> Uuid(k), text |-> SeedText(k), done |-> SeedDone(k),
      createdAt |-> SeedCreatedAt(k),
      listId |-> NULL, notes |-> NULL, dueDate |-> NULL]]

V1Store(v) ==
  [userVersion |-> v, todosCols |-> BaseColumns, todos |-> V1Todos,
   hasLists |-> FALSE, lists |-> <<>>]

V2Store(v) ==
  [userVersion |-> v, todosCols |-> AllColumns,
   todos |-> [k \in 1..3 |-> [V1Todos[k] EXCEPT !.listId = DEFAULT_LIST]],
   hasLists |-> TRUE,
   lists |-> <<[id |-> DEFAULT_LIST, name |-> DEFAULT_LIST_NAME]>>]

StartStores ==
  {EmptyStore(0), V1Store(1)} \cup {V2Store(v) : v \in 2..MaxStartVersion}

InitWith(s, pc, left) ==
  /\ db = s
  /\ mpc = pc
  /\ currentDbVersion = 0
  /\ seedIds = <<>>
  /\ defaultListExists = 0
  /\ nextUuid = StartUuids(s)
  /\ now = 0
  /\ calls = <<>>
  /\ budget = left
  /\ ser = s
  /\ probe = NoProbe
  /\ hist = NewHist(s, s, FALSE, FALSE, FALSE)

\* the migrator alone, on every store a launch can find
InitMig ==
  \E s \in StartStores :
    InitWith(s, "start", [runs |-> MaxRuns, faults |-> MaxFaults, calls |-> 0])

NextMig ==
  \/ MigReadVersion
  \/ InitJournal
  \/ InitCreate
  \/ \E k \in 1..3 : InitInsert(k)
  \/ UpgCreateLists
  \/ \E k \in 1..3 : UpgAddColumn(k)
  \/ UpgCountDefault
  \/ UpgInsertDefault
  \/ UpgBackfill
  \/ MigSetVersion
  \/ StorageFault
  \/ Relaunch

SpecMig == InitMig /\ [][NextMig]_vars

\* a task the version-1 application created (createTodo(db, text)) and
\* possibly toggled
V1UserTodo(k, done) ==
  [id |-> Uuid(3 + k), text |-> "a", done |-> done, createdAt |-> <<"iso", k>>,
   listId |-> NULL, notes |-> NULL, dueDate |-> NULL]

\* the stores a version-1 application can leave: the seeded rows and the
\* rows the user added
V1Stores ==
  UNION {{[V1Store(1) EXCEPT !.todos = @ \o [k \in 1..m |-> V1UserTodo(k, f[k])]] :
            f \in [1..m -> {0, 1}]} : m \in 0..MaxV1Extra}

\* the upgrade alone, on every version-1 store
InitUpg ==
  \E s \in V1Stores :
    InitWith(s, "start", [runs |-> MaxRuns, faults |-> MaxFaults, calls |-> 0])

NextUpg ==
  \/ MigReadVersion
  \/ UpgCreateLists
  \/ \E k \in 1..3 : UpgAddColumn(k)
  \/ UpgCountDefault
  \/ UpgInsertDefault
  \/ UpgBackfill
  \/ MigSetVersion
  \/ StorageFault
  \/ Relaunch

SpecUpg == InitUpg /\ [][NextUpg]_vars

\* the statements of migrateDB, none of them failing
MigSteps ==
  \/ MigReadVersion
  \/ InitJournal
  \/ InitCreate
  \/ \E k \in 1..3 : InitInsert(k)
  \/ UpgCreateLists
  \/ \E k \in 1..3 : UpgAddColumn(k)
  \/ UpgCountDefault
  \/ UpgInsertDefault
  \/ UpgBackfill
  \/ MigSetVersion

\* the application is started again after a launch whose migration returned
Restart == mpc = "done" /\ Relaunch

\* migration runs that nothing interrupts and no storage fault hits, from a
\* store at version 0 or 1; the event loop resumes migrateDB after each
\* awaited statement, hence the fairness on its statements
InitRun ==
  \E s \in {EmptyStore(0)} \cup V1Stores :
    InitWith(s, "start", [runs |-> MaxRuns, faults |-> 0, calls |-> 0])

NextRun == MigSteps \/ Restart

SpecRun == InitRun /\ [][NextRun]_vars /\ WF_vars(MigSteps)

\* the data layer alone, on the store a fresh install leaves, with the
\* screens mounted
InitDal ==
  InitWith(migrateDBRun(EmptyStore(0)), "done",
           [runs |-> 0, faults |-> 0, calls |-> MaxCalls])

SpecDal == InitDal /\ [][NextDal]_vars

\* the forms of the screens, on the store a fresh install leaves
InitUi ==
  InitWith(migrateDBRun(EmptyStore(0)), "done",
           [runs |-> 0, faults |-> 0, calls |-> MaxUiCalls])

SpecUi == InitUi /\ [][NextUi]_vars

\* the main screen after loadData, on the store a fresh install leaves
InitScreen ==
  InitWith(migrateDBRun(EmptyStore(0)), "done",
           [runs |-> 0, faults |-> 0, calls |-> MaxScreenCalls])

SpecScreen == InitScreen /\ [][NextScreen]_vars

\* the store of a fresh install after createList was called for each name of
\* a sequence of names, in that order
StoreWithLists(names) ==
  LET s == migrateDBRun(EmptyStore(0))
  IN  [s EXCEPT !.lists = @ \o [k \in 1..Len(names) |->
                                 [id |-> Uuid(StartUuids(s) + k), name |-> names[k]]]]

InitLists ==
  \E m \in 0..MaxLists : \E names \in [1..m -> ListNameInputs] :
    /\ db = StoreWithLists(names)
    /\ mpc = "done"
    /\ currentDbVersion = 0
    /\ seedIds = <<>>
    /\ defaultListExists = 0
    /\ nextUuid = StartUuids(db) + m
    /\ now = 0
    /\ calls = <<>>
    /\ budget = [runs |-> 0, faults |-> 0, calls |-> 1]
    /\ ser = db
    /\ probe = NoProbe
    /\ hist = NewHist(db, db, FALSE, FALSE, FALSE)

SpecLists == InitLists /\ [][NextLists]_vars

\* the application: launches, the migration, and the calls of the screens
Init ==
  \E s \in StartStores :
    InitWith(s, "start",
             [runs |-> MaxAppRuns, faults |-> MaxAppFaults, calls |-> MaxAppCalls])

Next == NextMig \/ NextDal

Spec == Init /\ [][Next]_vars

----------------------------------------------------------------------------
(* Claims about the migrator *)

\* C1: a migrate run that follows an interrupted one (the process was killed
\* between two statements) ends with the task rows (up to their random ids),
\* list rows and version marker of one uninterrupted run from the same
\* starting store at version 0 or 1.
C1_RerunAfterKillEqualsOneRun ==
  (mpc = "done" /\ hist.interrupted /\ ~hist.faulted
     /\ hist.store0.userVersion \in {0, 1})
  => LET u == migrateDBRun(hist.store0)
     IN  /\ EraseIds(db.todos) = EraseIds(u.todos)
         /\ db.lists = u.lists
         /\ db.userVersion = u.userVersion

\* C2: a migrate run that completes on the empty version-0 store leaves
\* exactly 3 task rows, exactly 1 list row with id default-list, the marker
\* at 2, and every task's listId equal to default-list.
C2_FreshInstall ==
  (mpc = "done" /\ hist.dbAtLaunch = EmptyStore(0))
  => /\ Len(db.todos) = 3
     /\ Len(db.lists) = 1
     /\ db.lists[1].id = DEFAULT_LIST
     /\ db.userVersion = 2
     /\ \A i \in 1..Len(db.todos) : db.todos[i].listId = DEFAULT_LIST

C2_Witness ==
  /\ mpc = "done"
  /\ hist.dbAtLaunch = EmptyStore(0)
  /\ Len(db.todos) = 3
  /\ db.userVersion = 2

\* C3: when a migrate run completes and the run before it had completed too,
\* the second run has left schema, task rows, list rows and marker exactly as
\* the first run left them.
C3_TwiceEqualsOnce ==
  (mpc = "done" /\ hist.prevDone) => db = hist.dbAtLaunch

C3_Witness ==
  /\ mpc = "done"
  /\ hist.prevDone
  /\ hist.store0.userVersion = 0
  /\ Len(db.todos) >= 3

\* C4: the persisted version marker never decreases, whatever version the
\* store starts at.
C4_MarkerNeverDecreases == [][db'.userVersion >= db.userVersion]_vars

\* C5: in one migrate run the version steps run once each and in order: from
\* version 0, step 0->1 begins, seeds its three rows, ends, and then step 1->2
\* begins and ends; from version 1 only step 1->2 runs; from version 2 or more
\* no step runs; step 0->1 runs only on a store whose marker is 0.
C5_StepsOnceInOrder ==
  LET full == CASE hist.readVersion = 0 ->
                     <<"init:begin", "init:end", "upgrade:begin", "upgrade:end">>
                [] hist.readVersion = 1 -> <<"upgrade:begin", "upgrade:end">>
                [] OTHER -> <<>>
      seeded == Len(db.todos) - Len(hist.dbAtLaunch.todos)
  IN  /\ IsPrefix(hist.steps, full)
      /\ mpc = "done" => hist.steps = full
      /\ mpc = "done" => seeded = (IF hist.readVersion = 0 THEN 3 ELSE 0)
      /\ (\E i \in 1..Len(hist.steps) : hist.steps[i] = "init:begin")
           => hist.dbAtLaunch.userVersion = 0

C5_Witness ==
  /\ mpc = "done"
  /\ hist.readVersion = 0
  /\ hist.steps = <<"init:begin", "init:end", "upgrade:begin", "upgrade:end">>

C5_WitnessFromV1 ==
  /\ mpc = "done"
  /\ hist.readVersion = 1
  /\ hist.steps = <<"upgrade:begin", "upgrade:end">>

\* C6: a storage fault raised during migrate that is not the
\* column-already-exists conflict makes the run fail (it reaches the caller);
\* it is never swallowed.
C6_FaultsPropagate == hist.otherFault => mpc = "failed"

----------------------------------------------------------------------------
(* Claims about the hosting component and the data-access operations *)

\* C7: a data-access call is issued only in a launch whose migrateDB call has
\* returned, with the marker at the terminal version; in a launch whose
\* migration failed or is still running no call is ever issued.
C7_CallsOnlyAfterMigration ==
  calls # <<>> => (mpc = "done" /\ db.userVersion = DATABASE_VERSION)

C7_Witness ==
  /\ calls # <<>>
  /\ calls[1].pc = "done"
  /\ hist.dbAtLaunch.userVersion = DATABASE_VERSION

Row(s, id) == s.todos[CHOOSE i \in Matching(s.todos, id) : TRUE]

UpdatedFields == {"text", "notes", "dueDate", "listId"}

\* the fields a call to updateTodo overwrites with a value of its own
Supplied(updates) ==
  {f \in UpdatedFields \cap DOMAIN updates :
     IF f = "text" THEN TRUE
     ELSE IF f = "dueDate" THEN Truthy(updates[f])
     ELSE updates[f] # NULL}

IsUpdate(i) == calls[i].op = "updateTodo"

\* no updateTodo call wrote the row of call b after b did
LastUpdateOfRow(b) ==
  \A c \in 1..Len(calls) :
    (c # b /\ IsUpdate(c) /\ calls[c].id = calls[b].id /\ calls[c].pc = "done")
      => calls[c].at < calls[b].at

\* C8: when an updateTodo call a writes a row between the read and the write
\* of another updateTodo call b on the same id, b returns a task and the row
\* b leaves has, in every field a supplied and b did not, the value b had
\* read: the value a wrote there is lost (last write wins).
C8_LostUpdate ==
  \A b \in 1..Len(calls) :
    (IsUpdate(b) /\ calls[b].pc = "done" /\ calls[b].stale # {} /\ LastUpdateOfRow(b))
    => /\ calls[b].result.kind = "row"
       /\ \A a \in calls[b].stale :
            /\ calls[a].result.kind = "row"
            /\ \A f \in Supplied(calls[a].args) \ Supplied(calls[b].args) :
                 Row(db, calls[b].id)[f] = calls[b].todo.row[f]

\* both calls returned a task, a wrote text "x" first, b then wrote notes, and
\* the persisted row no longer has the text a wrote
C8_Witness ==
  \E a, b \in 1..Len(calls) :
    /\ IsUpdate(a) /\ IsUpdate(b) /\ a \in calls[b].stale
    /\ calls[a].pc = "done" /\ calls[b].pc = "done"
    /\ calls[a].result.kind = "row" /\ calls[b].result.kind = "row"
    /\ calls[a].at < calls[b].at
    /\ Supplied(calls[a].args) = {"text"}
    /\ Supplied(calls[b].args) = {"notes"}
    /\ calls[a].result.row.text = "x"
    /\ Row(db, calls[b].id).text # "x"
    /\ Row(db, calls[b].id).notes = <<"n">>

AtMostOneUpdatePerId ==
  \A i, j \in 1..Len(calls) :
    (i # j /\ IsUpdate(i) /\ IsUpdate(j)) => calls[i].id # calls[j].id

\* C9: when the calls issued contain at most one updateTodo per task id, the
\* rows of both tables and every returned result are those of the serial
\* execution that runs each call, whole, at the moment its last statement ran.
C9_SerialUnlessTwoUpdates ==
  AtMostOneUpdatePerId
  => /\ calls # <<>> => Content(db) = Content(ser)
     /\ \A i \in 1..Len(calls) :
          calls[i].pc = "done" => calls[i].result = calls[i].serResult

\* an updateTodoStatus call committed between the read and the write of the
\* only updateTodo call on that row
C9_Witness ==
  /\ AtMostOneUpdatePerId
  /\ \E u \in 1..Len(calls) :
       /\ IsUpdate(u) /\ calls[u].pc = "done"
       /\ calls[u].result.kind = "row"
       /\ calls[u].todo.row.done # calls[u].result.row.done

\* C10 as stated: updateTodoStatus(id, true) followed by
\* updateTodoStatus(id, false) leaves the row exactly as it was before the
\* pair, whatever its done value was.
C10_PairRestoresRow ==
  probe.phase = 2 => Row(db, probe.id) = probe.orig

\* C10, amended: updateTodoStatus(id, true) followed by
\* updateTodoStatus(id, false) leaves done = 0 (the original value only when
\* the task was not done) and every other field of the row as it was.
C10_PairLeavesNotDone ==
  probe.phase = 2 => Row(db, probe.id) = [probe.orig EXCEPT !.done = 0]

C10_Witness ==
  /\ probe.phase = 2
  /\ probe.orig.done = 1
  /\ Row(db, probe.id).done = 0

----------------------------------------------------------------------------
(* Claims about the effect of single operations.  A step "completes" call  *)
(* i when it runs the call's last statement.                               *)

Completes(i) == calls[i].pc # "done" /\ i <= Len(calls') /\ calls'[i].pc = "done"

NoRowWithId(rows, id) == \A k \in 1..Len(rows) : rows[k].id # id

C12_AbsentIdReturnsNull ==
  [][\A i \in 1..Len(calls) :
       (calls[i].op \in {"updateTodoStatus", "updateTodo"} /\ Completes(i)
          /\ NoRowWithId(db.todos, calls[i].id))
       => (calls'[i].result = Null /\ db' = db)]_vars

C12_Witness ==
  \E i, j \in 1..Len(calls) :
    /\ calls[i].op = "updateTodoStatus" /\ calls[j].op = "updateTodo"
    /\ calls[i].id = NoSuchId /\ calls[j].id = NoSuchId
    /\ calls[i].pc = "done" /\ calls[j].pc = "done"
    /\ calls[i].result = Null /\ calls[j].result = Null
    /\ Len(db.todos) = 3

\* C13: the task createTodo returns has done = 0, createdAt the instant of
\* the clock when createTodo was called, listId the argument given or
\* default-list when none was given, and the field values of the row the
\* call persisted (timestamps as Date values).
C13_CreateTodoResult ==
  [][\A i \in 1..Len(calls) :
       (At(i, "createTodo", "stmt") /\ Completes(i))
       => LET a == calls[i].args
              r == calls'[i].result
          IN  /\ r.kind = "row"
              /\ r.row.done = 0
              /\ r.row.createdAt = <<"date", a.at>>
              /\ r.row.listId = (IF a.given.listId = NULL THEN DEFAULT_LIST
                                                          ELSE a.given.listId)
              /\ r.row.text = a.given.text
              /\ r.row = ToTodoItem(db'.todos[Len(db'.todos)])]_vars

\* a task created with a listId of its own, returned after the clock had
\* moved on
C13_Witness ==
  \E i \in 1..Len(calls) :
    /\ calls[i].op = "createTodo" /\ calls[i].pc = "done"
    /\ calls[i].result.kind = "row"
    /\ calls[i].args.given.listId = NoSuchId
    /\ calls[i].result.row.listId = NoSuchId
    /\ calls[i].args.at < now - 1

\* C14: a createTodo call appends exactly one task row, whose id is the id of
\* no row already there, and changes no other task row and no list row; a
\* createList call appends exactly one list row with an id no list row has,
\* and changes no other list row and no task row.
C14_CreateAddsOneRow ==
  [][\A i \in 1..Len(calls) :
       /\ (At(i, "createTodo", "stmt") /\ Completes(i))
            => /\ Len(db'.todos) = Len(db.todos) + 1
               /\ SubSeq(db'.todos, 1, Len(db.todos)) = db.todos
               /\ NoRowWithId(db.todos, db'.todos[Len(db'.todos)].id)
               /\ db'.lists = db.lists
       /\ (At(i, "createList", "stmt") /\ Completes(i))
            => /\ Len(db'.lists) = Len(db.lists) + 1
               /\ SubSeq(db'.lists, 1, Len(db.lists)) = db.lists
               /\ NoRowWithId(db.lists, db'.lists[Len(db'.lists)].id)
               /\ db'.todos = db.todos]_vars

C14_Witness ==
  \E i, j \in 1..Len(calls) :
    /\ calls[i].op = "createTodo" /\ calls[j].op = "createList"
    /\ calls[i].pc = "done" /\ calls[j].pc = "done"
    /\ Len(db.todos) = 4 /\ Len(db.lists) = 2
    /\ db.todos[4].id # db.lists[2].id

\* C15: no step of the migration or of a data-access call changes the id or
\* the createdAt of a task row.
C15_IdAndCreatedAtFixed ==
  [][\A k \in 1..Len(db.todos) :
       k <= Len(db'.todos)
       => /\ db'.todos[k].id = db.todos[k].id
          /\ db'.todos[k].createdAt = db.todos[k].createdAt]_vars

\* updateTodo has rewritten a seeded row, which still has its createdAt
C15_Witness ==
  \E i \in 1..Len(calls) :
    /\ IsUpdate(i) /\ calls[i].pc = "done" /\ calls[i].result.kind = "row"
    /\ "text" \in DOMAIN calls[i].args
    /\ Row(db, calls[i].id).text = calls[i].args.text
    /\ Row(db, calls[i].id).createdAt \in {SeedCreatedAt(k) : k \in 1..3}

----------------------------------------------------------------------------
(* Claims about the rows of the two tables *)

\* C16: whenever migrateDB has returned, whatever store the launch found and
\* whatever calls have run since, todo_lists has a row with id default-list.
C16_DefaultListExists == mpc = "done" => CountDefaultList(db) >= 1

\* the upgrade of a version-1 store has inserted the row
C16_Witness ==
  /\ mpc = "done"
  /\ hist.readVersion = 1
  /\ CountDefaultList(hist.dbAtLaunch) = 0
  /\ CountDefaultList(db) = 1

ListIds(s) == {s.lists[l].id : l \in 1..Len(s.lists)}

\* the listId argument of a createTodo or updateTodo call (NULL: none given)
GivenListId(i) ==
  IF calls[i].op = "createTodo" THEN calls[i].args.given.listId
  ELSE IF "listId" \in DOMAIN calls[i].args THEN calls[i].args.listId
  ELSE NULL

\* C17 as stated: whatever listId arguments the calls were given, the listId
\* of every task row is the id of a list row.
C17_ListIdReferencesList ==
  \A k \in 1..Len(db.todos) : db.todos[k].listId \in ListIds(db)

\* C17, amended: when every createTodo and updateTodo call issued was given
\* no listId or the id of a list row, the listId of every task row is the id
\* of a list row.
C17_ListIdReferencesListIfGivenOnes ==
  (\A i \in 1..Len(calls) :
     calls[i].op \in {"createTodo", "updateTodo"}
       => GivenListId(i) \in {NULL} \cup ListIds(db))
  => \A k \in 1..Len(db.todos) : db.todos[k].listId \in ListIds(db)

\* a task created with no listId and a task updated with no listId
C17_Witness ==
  \E i, j \in 1..Len(calls) :
    /\ calls[i].op = "createTodo" /\ calls[j].op = "updateTodo"
    /\ calls[i].pc = "done" /\ calls[j].pc = "done"
    /\ calls[i].result.kind = "row" /\ calls[j].result.kind = "row"
    /\ GivenListId(i) = NULL /\ GivenListId(j) = NULL
    /\ db.todos[Len(db.todos)].listId = DEFAULT_LIST

\* C18: no step removes a row: every task id and every list id of the store
\* is still there after any step of a migration run or of a call.
C18_NothingDeleted ==
  [][/\ \A k \in 1..Len(db.todos) : ~NoRowWithId(db'.todos, db.todos[k].id)
     /\ \A l \in 1..Len(db.lists) : db.lists[l].id \in ListIds(db')]_vars

\* a migration that was killed and run again has kept the rows of the first
\* run next to those of the second
C18_Witness ==
  /\ mpc = "done"
  /\ hist.interrupted
  /\ Len(db.todos) > 3
  /\ Len(db.lists) = 1

\* C19: through the forms of the screens (add task, save task details, new
\* list) no task row with empty text and no list row with empty name is
\* persisted.
C19_NoEmptyTextOrName ==
  /\ \A k \in 1..Len(db.todos) : db.todos[k].text # ""
  /\ \A l \in 1..Len(db.lists) : db.lists[l].name # ""

NamesOf(lists) == [k \in 1..Len(lists) |-> lists[k].name]

\* C20: getAllLists returns every row of todo_lists exactly once, in
\* ascending order of name, whatever the order the rows were inserted in.
C20_SortedByName ==
  \A i \in 1..Len(calls) :
    (calls[i].op = "getAllLists" /\ calls[i].pc = "done")
    => LET rows == calls[i].result.rows
       IN  /\ calls[i].result.kind = "rows"
           /\ Len(rows) = Len(db.lists)
           /\ \A l \in 1..Len(db.lists) :
                Cardinality({k \in 1..Len(rows) : rows[k] = db.lists[l]}) = 1
           /\ \A a, b \in 1..Len(rows) :
                a < b => NameRank(rows[a].name) <= NameRank(rows[b].name)

\* lists inserted as Work, Apple, Z after the default list come back as
\* Apple, Todas as Tarefas, Work, Z
C20_Witness ==
  /\ NamesOf(db.lists) = <<DEFAULT_LIST_NAME, "Work", "Apple", "Z">>
  /\ calls # <<>>
  /\ calls[1].pc = "done"
  /\ calls[1].result.kind = "rows"
  /\ NamesOf(calls[1].result.rows) = <<"Apple", DEFAULT_LIST_NAME, "Work", "Z">>

----------------------------------------------------------------------------
(* Further claims about the operations and the migrator *)

\* C21: getTodosByList called with a listId string, the empty string
\* included, returns exactly the task rows whose listId is that string (none,
\* and no error, when no row has it); called without a listId it returns
\* what getAllTodos returns.
C21_ByListExactly ==
  [][\A i \in 1..Len(calls) :
       (At(i, "getTodosByList", "stmt") /\ Completes(i))
       => LET l == calls[i].args.listId
              r == calls'[i].result
              Keep(row) == row.listId = l
          IN  /\ r.kind = "rows"
              /\ IF l = NULL THEN r = getAllTodos(db).result
                 ELSE r.rows = ToTodoItems(SelectWhere(db.todos, Keep))]_vars

\* what version 2 of the schema promises
SchemaComplete(s) ==
  /\ HasTodos(s)
  /\ s.hasLists
  /\ AllColumns \subseteq s.todosCols
  /\ \E l \in 1..Len(s.lists) : s.lists[l].id = DEFAULT_LIST
  /\ \A k \in 1..Len(s.todos) : s.todos[k].listId # NULL

\* C22: the marker changes only in the last statement of a migrateDB call
\* (so a killed or failed run leaves it as it was), and in a store that
\* started at version 0 or 1 a marker of 2 means that both tables exist, todos
\* has the columns listId, notes and dueDate, the default-list row exists and
\* no task has a NULL listId.
C22_MarkerWrittenLast ==
  [][/\ db'.userVersion # db.userVersion => (mpc = "set_version" /\ mpc' = "done")
     /\ (hist'.store0.userVersion \in {0, 1} /\ db'.userVersion = 2)
          => SchemaComplete(db')]_vars

\* C23: a migrateDB call that found the store at version 1 and returned has
\* kept every task row with its id, text, done and createdAt, has added no
\* task row, has set listId to default-list in exactly the rows whose listId
\* was NULL, and has inserted the default-list row if and only if there was
\* none.
C23_UpgradeFrame ==
  (mpc = "done" /\ hist.readVersion = 1)
  => LET o == hist.dbAtLaunch
     IN  /\ Len(db.todos) = Len(o.todos)
         /\ \A k \in 1..Len(o.todos) :
              /\ \A f \in {"id", "text", "done", "createdAt"} :
                   db.todos[k][f] = o.todos[k][f]
              /\ db.todos[k].listId = (IF o.todos[k].listId = NULL THEN DEFAULT_LIST
                                                                  ELSE o.todos[k].listId)
         /\ db.lists = (IF DEFAULT_LIST \in ListIds(o) THEN o.lists
                        ELSE Append(o.lists, [id |-> DEFAULT_LIST,
                                              name |-> DEFAULT_LIST_NAME]))

\* a store with a task the user had added and completed
C23_Witness ==
  /\ mpc = "done"
  /\ hist.readVersion = 1
  /\ Len(hist.dbAtLaunch.todos) = 4
  /\ hist.dbAtLaunch.todos[4].listId = NULL
  /\ db.todos[4].done = 1
  /\ db.todos[4].listId = DEFAULT_LIST

\* a run that found the default-list row a killed run had inserted
C23_WitnessListPresent ==
  /\ mpc = "done"
  /\ hist.readVersion = 1
  /\ DEFAULT_LIST \in ListIds(hist.dbAtLaunch)
  /\ Len(db.lists) = 1

\* C24: a migrateDB call that reads the marker 2 returns with every task
\* row, every list row, the schema and the marker as it found them, whatever
\* calls ran in the launches before.
C24_NoOpAtVersion2 ==
  (hist.readVersion = DATABASE_VERSION /\ calls = <<>>)
  => (mpc = "done" /\ db = hist.dbAtLaunch)

\* the launch after one in which a list was created
C24_Witness ==
  /\ mpc = "done"
  /\ hist.readVersion = DATABASE_VERSION
  /\ calls = <<>>
  /\ Len(db.lists) = 2
  /\ db = hist.dbAtLaunch

\* C25: with no storage fault and no interruption, every migrateDB call on a
\* store that started at version 0 or 1 eventually returns with the marker
\* at 2, and once the marker is 2 no step of a later run changes it.
C25_TerminatesAtVersion2 ==
  /\ [](mpc = "start" => <>(mpc = "done" /\ db.userVersion = DATABASE_VERSION))
  /\ [][db.userVersion = DATABASE_VERSION
         => db'.userVersion = DATABASE_VERSION]_vars

\* the third launch on a fresh install has returned, the marker still at 2
C25_Witness ==
  /\ mpc = "done"
  /\ db.userVersion = DATABASE_VERSION
  /\ hist.store0 = EmptyStore(0)
  /\ hist.readVersion = DATABASE_VERSION
  /\ budget.runs = 0
  /\ Len(db.todos) = 3

IsStatus(i) == calls[i].op = "updateTodoStatus"

\* call s set done of its row, and no updateTodoStatus call did so after it
LastStatusOfRow(s) ==
  /\ IsStatus(s) /\ calls[s].pc = "done" /\ calls[s].result.kind = "row"
  /\ \A c \in 1..Len(calls) :
       (c # s /\ IsStatus(c) /\ calls[c].id = calls[s].id /\ calls[c].pc = "done")
         => calls[c].at < calls[s].at

\* C26: the done value the last updateTodoStatus call set is the persisted
\* one, whatever updateTodo calls on that row wrote after it, also when such
\* a call had read the row before the status changed.
C26_UpdateNeverWritesDone ==
  \A s \in 1..Len(calls) :
    LastStatusOfRow(s) => Row(db, calls[s].id).done = DoneToInt(calls[s].args.done)

\* updateTodo read the row, updateTodoStatus then changed done, updateTodo
\* then wrote: the row has the done value of updateTodoStatus
C26_Witness ==
  \E s, u \in 1..Len(calls) :
    /\ LastStatusOfRow(s) /\ IsUpdate(u) /\ calls[u].id = calls[s].id
    /\ calls[u].pc = "done" /\ calls[u].result.kind = "row"
    /\ calls[s].at < calls[u].at
    /\ calls[u].todo.row.done # DoneToInt(calls[s].args.done)
    /\ Row(db, calls[s].id).done = DoneToInt(calls[s].args.done)
    /\ calls[u].result.row.done = DoneToInt(calls[s].args.done)

\* the step is the write of an updateTodo call on the row with this id that
\* had read the row before another updateTodo call wrote it
StaleWriteOf(id) ==
  \E i \in 1..Len(calls) :
    /\ At(i, "updateTodo", "write") /\ Completes(i)
    /\ calls[i].id = id /\ calls[i].stale # {}

\* C27 as stated: no step of a data-access call turns a non-NULL dueDate of a
\* task row into NULL.
C27_DueDateNeverRemoved ==
  [][\A k \in 1..Len(db.todos) :
       db.todos[k].dueDate # NULL => db'.todos[k].dueDate # NULL]_vars

\* C27, amended: the only step that turns a non-NULL dueDate of a task row
\* into NULL is the write of an updateTodo call that had read the row before
\* another updateTodo call wrote it (the lost update); an updateTodo call
\* with dueDate omitted, null or undefined keeps the persisted dueDate.
C27_DueDateRemovedOnlyByStaleWrite ==
  [][\A k \in 1..Len(db.todos) :
       (db.todos[k].dueDate # NULL /\ ~StaleWriteOf(db.todos[k].id))
         => db'.todos[k].dueDate # NULL]_vars

\* an updateTodo call given dueDate = null has rewritten a row that had a
\* dueDate, and the row still has it
C27_Witness ==
  \E i \in 1..Len(calls) :
    /\ IsUpdate(i) /\ calls[i].pc = "done" /\ calls[i].stale = {}
    /\ calls[i].result.kind = "row"
    /\ "dueDate" \in DOMAIN calls[i].args /\ calls[i].args.dueDate = NULL
    /\ calls[i].todo.row.dueDate = toISOString(SomeDate)
    /\ Row(db, calls[i].id).text = "y"
    /\ Row(db, calls[i].id).dueDate = toISOString(SomeDate)

\* C28: on the main screen, when no call is in flight, every task a call of
\* the screen created or toggled is in the list the screen shows, with the
\* done value of its persisted row.
C28_MemoryAgreesWithStore ==
  (\A i \in 1..Len(calls) : calls[i].pc = "done")
  => \A i \in 1..Len(calls) :
       calls[i].result.kind = "row"
       => \E k \in 1..Len(TodoList_todos) :
            /\ TodoList_todos[k].id = calls[i].id
            /\ TodoList_todos[k].done = Row(db, calls[i].id).done

====
